---------------------------- MODULE Spec2Model ----------------------------
(***************************************************************************)
(* Model of the text-to-menu core of bamba-bot (src/scraper.py):           *)
(*   clean_menu_text, is_swedish_text, extract_week_from_text and          *)
(*   format_week_with_openai with its local formatter.                     *)
(*                                                                         *)
(* A text is a sequence of characters; a character is a one-element string *)
(* ("a", " ", "\n").  Characters outside ASCII carry their HTML entity     *)
(* name: "aring" is a-with-ring, "auml" a-with-diaeresis, "ouml"           *)
(* o-with-diaeresis (capitals "Aring", "Auml", "Ouml"), "eacute" e-acute,  *)
(* "bull" the bullet, "middot" the middle dot, "longs" the long s          *)
(* (U+017F), "emoji_fish" the fish pictograph, and so on.                  *)
(*                                                                         *)
(* src/scraper.py is stored with its UTF-8 bytes shown as Mac Roman text   *)
(* (a-with-ring appears as a square-root sign followed by a bullet); the   *)
(* literals below are the UTF-8 text those bytes encode.                   *)
(***************************************************************************)
EXTENDS Integers, Sequences, FiniteSets, TLC

VARIABLES
    pc,         \* "start" before the call under study, then the stage reached
    raw_text,   \* the text handed to the function under study
    cleaned,    \* the successive results of clean_menu_text, oldest first
    verdict,    \* the value returned by is_swedish_text
    week,       \* the dict returned by extract_week_from_text, in insertion order
    week_map,   \* the dict handed to format_week_with_openai, in insertion order
    outcome,    \* how the service call of format_week_with_openai went
    reply,      \* the text the service replied, when it replied
    formatted,  \* the dict returned by format_week_with_openai, in insertion order
    calls       \* the number of requests sent to the service

vars == <<pc, raw_text, cleaned, verdict, week, week_map, outcome, reply, formatted, calls>>

---------------------------------------------------------------------------
(* Characters and the classes Python's str methods and re module use.      *)

LowerAscii == {"a","b","c","d","e","f","g","h","i","j","k","l","m",
               "n","o","p","q","r","s","t","u","v","w","x","y","z"}

UpperAscii == {"A","B","C","D","E","F","G","H","I","J","K","L","M",
               "N","O","P","Q","R","S","T","U","V","W","X","Y","Z"}

\* [a-zA-Z]
AsciiLetters == LowerAscii \cup UpperAscii

\* \d
Digits == {"0","1","2","3","4","5","6","7","8","9"}

\* \s, and what str.strip() removes
Whitespace == {" ", "\n", "\t", "\r"}

\* letters outside ASCII that occur in the texts
OtherLetters == {"aring","auml","ouml","Aring","Auml","Ouml","eacute","egrave","ecirc",
                 "agrave","acirc","icirc","iuml","ocirc","ucirc","ugrave","ccedil","oelig",
                 "Eacute","longs","inodot","ordm"}

\* \w : what \b tells apart from the rest
WordChars == AsciiLetters \cup Digits \cup OtherLetters \cup {"_"}

\* str.lower() of one character.  The long s and the dotless i are lower
\* case already.
LowerChar(c) ==
    CASE c = "A" -> "a" [] c = "B" -> "b" [] c = "C" -> "c" [] c = "D" -> "d"
      [] c = "E" -> "e" [] c = "F" -> "f" [] c = "G" -> "g" [] c = "H" -> "h"
      [] c = "I" -> "i" [] c = "J" -> "j" [] c = "K" -> "k" [] c = "L" -> "l"
      [] c = "M" -> "m" [] c = "N" -> "n" [] c = "O" -> "o" [] c = "P" -> "p"
      [] c = "Q" -> "q" [] c = "R" -> "r" [] c = "S" -> "s" [] c = "T" -> "t"
      [] c = "U" -> "u" [] c = "V" -> "v" [] c = "W" -> "w" [] c = "X" -> "x"
      [] c = "Y" -> "y" [] c = "Z" -> "z"
      [] c = "Aring" -> "aring" [] c = "Auml" -> "auml" [] c = "Ouml" -> "ouml"
      [] c = "Eacute" -> "eacute"
      [] OTHER -> c

\* str.lower()
Lower(s) == [i \in 1..Len(s) |-> LowerChar(s[i])]

\* pat occurs in s at index i
MatchAt(s, i, pat) ==
    /\ i >= 1
    /\ i + Len(pat) - 1 <= Len(s)
    /\ \A k \in 1..Len(pat) : s[i + k - 1] = pat[k]

\* pat in s
Contains(s, pat) == \E i \in 1..(Len(s) - Len(pat) + 1) : MatchAt(s, i, pat)

\* the index after the longest run of characters of class cls that starts at i
RECURSIVE RunEnd(_, _, _)
RunEnd(s, i, cls) ==
    IF i <= Len(s) /\ s[i] \in cls THEN RunEnd(s, i + 1, cls) ELSE i

\* the index of the first character of a run of class cls that ends before j
RECURSIVE RunStart(_, _, _)
RunStart(s, j, cls) ==
    IF j > 1 /\ s[j - 1] \in cls THEN RunStart(s, j - 1, cls) ELSE j

\* str.strip(chars)
StripChars(s, cls) ==
    LET a == RunEnd(s, 1, cls)
        b == RunStart(s, Len(s) + 1, cls)
    IN  IF a >= b THEN <<>> ELSE SubSeq(s, a, b - 1)

\* str.strip()
Strip(s) == StripChars(s, Whitespace)

\* str.replace(pat, "") from index i on: left to right, occurrences not overlapping
RECURSIVE RemoveFrom(_, _, _)
RemoveFrom(s, pat, i) ==
    IF i > Len(s) THEN <<>>
    ELSE IF MatchAt(s, i, pat) THEN RemoveFrom(s, pat, i + Len(pat))
    ELSE <<s[i]>> \o RemoveFrom(s, pat, i + 1)

\* the concatenation of a sequence of texts
RECURSIVE Flatten(_)
Flatten(ss) == IF ss = <<>> THEN <<>> ELSE Head(ss) \o Flatten(Tail(ss))

\* the texts made of at most n pieces of the palette
Pieces(palette, n) == UNION {[1..k -> palette] : k \in 0..n}

---------------------------------------------------------------------------
(* clean_menu_text                                                         *)

ui_elements == <<
    <<"A","l","l"," ","r","e","a","c","t","i","o","n","s",":">>,
    <<"f","r","o","m"," ","I","C","A"," ","S","u","p","e","r","m","a","r","k","e","t"," ","H","a","n","s","a"," ","|"," ","M","a","l","m","ouml">>,
    <<"E","m","a","i","l"," ","o","r"," ","p","h","o","n","e"," ","n","u","m","b","e","r">>,
    <<"P","a","s","s","w","o","r","d">> >>

\* for element in ui_elements: text = text.replace(element, "")
RECURSIVE RemoveUiElements(_, _)
RemoveUiElements(text, k) ==
    IF k > Len(ui_elements) THEN text
    ELSE RemoveUiElements(RemoveFrom(text, ui_elements[k], 1), k + 1)

\* \d{3}-\d{2} \d{2} \d{2} matched at i: the index after the match, 0 for no match
PhoneEnd(s, i) ==
    IF /\ i + 11 <= Len(s)
       /\ \A k \in {0, 1, 2, 4, 5, 7, 8, 10, 11} : s[i + k] \in Digits
       /\ s[i + 3] = "-"
       /\ s[i + 6] = " "
       /\ s[i + 9] = " "
    THEN i + 12 ELSE 0

\* [a-zA-Z]+ matched at i and followed by the character sep: the index after
\* sep, 0 for no match.  sep is no letter, so the run is the longest one.
LettersThen(s, i, sep) ==
    LET e == RunEnd(s, i, AsciiLetters)
    IN  IF e > i /\ e <= Len(s) /\ s[e] = sep THEN e + 1 ELSE 0

\* [a-zA-Z]+ matched at i, greedy: the index after the match, 0 for no match
LettersEnd(s, i) ==
    LET e == RunEnd(s, i, AsciiLetters)
    IN  IF e > i THEN e ELSE 0

\* [a-zA-Z]+\.[a-zA-Z]+@[a-zA-Z]+\.[a-zA-Z]+ matched at i
EmailEnd(s, i) ==
    LET a == LettersThen(s, i, ".")
        b == IF a = 0 THEN 0 ELSE LettersThen(s, a, "@")
        c == IF b = 0 THEN 0 ELSE LettersThen(s, b, ".")
    IN  IF c = 0 THEN 0 ELSE LettersEnd(s, c)

\* [a-zA-Z]+\.[a-zA-Z]+/[a-zA-Z]+ matched at i
UrlEnd(s, i) ==
    LET a == LettersThen(s, i, ".")
        b == IF a = 0 THEN 0 ELSE LettersThen(s, a, "/")
    IN  IF b = 0 THEN 0 ELSE LettersEnd(s, b)

\* re.sub(phone, '', s) from index i on
RECURSIVE SubPhone(_, _)
SubPhone(s, i) ==
    IF i > Len(s) THEN <<>>
    ELSE IF PhoneEnd(s, i) # 0 THEN SubPhone(s, PhoneEnd(s, i))
    ELSE <<s[i]>> \o SubPhone(s, i + 1)

\* re.sub(email, '', s) from index i on
RECURSIVE SubEmail(_, _)
SubEmail(s, i) ==
    IF i > Len(s) THEN <<>>
    ELSE IF EmailEnd(s, i) # 0 THEN SubEmail(s, EmailEnd(s, i))
    ELSE <<s[i]>> \o SubEmail(s, i + 1)

\* re.sub(url, '', s) from index i on
RECURSIVE SubUrl(_, _)
SubUrl(s, i) ==
    IF i > Len(s) THEN <<>>
    ELSE IF UrlEnd(s, i) # 0 THEN SubUrl(s, UrlEnd(s, i))
    ELSE <<s[i]>> \o SubUrl(s, i + 1)

\* re.sub(r'\s+', ' ', s) from index i on
RECURSIVE CollapseWhitespace(_, _)
CollapseWhitespace(s, i) ==
    IF i > Len(s) THEN <<>>
    ELSE IF s[i] \in Whitespace
         THEN <<" ">> \o CollapseWhitespace(s, RunEnd(s, i, Whitespace))
    ELSE <<s[i]>> \o CollapseWhitespace(s, i + 1)

clean_menu_text(text) ==
    LET t1 == RemoveUiElements(text, 1)
        t2 == SubPhone(t1, 1)
        t3 == SubEmail(t2, 1)
        t4 == SubUrl(t3, 1)
    IN  Strip(CollapseWhitespace(t4, 1))

---------------------------------------------------------------------------
(* Specification of the normalizer: clean_menu_text applied again and      *)
(* again to its own result.                                                *)

\* how many pieces an input text is made of
MaxNormPieces == 3

\* how many times the normalizer is applied in a row
MaxPasses == 2

NormPalette == {
    <<"P","a","s","s">>, <<"w","o","r","d">>, <<"P","a","s","s","w","o","r","d">>, <<"A","l","l"," ","r","e","a","c","t","i","o","n","s",":">>, <<" ">>, <<"\n">>,
    <<"L","a","x"," ","m","e","d"," ","r","i","s">>, <<"0","4","0","-","1","2"," ","3","4"," ","5","6">>, <<"0">>, <<"a",".","b">>, <<"@">>, <<"/","c">>, <<".">> }

NormInputs == {Flatten(p) : p \in Pieces(NormPalette, MaxNormPieces)}

Idle ==
    /\ verdict = FALSE
    /\ week = <<>>
    /\ week_map = <<>>
    /\ outcome = "none"
    /\ reply = <<>>
    /\ formatted = <<>>
    /\ calls = 0

InitNorm ==
    /\ pc = "start"
    /\ raw_text \in NormInputs
    /\ cleaned = <<>>
    /\ Idle

\* one more call of clean_menu_text, on the raw text first and then on the
\* result of the call before
Normalize ==
    /\ Len(cleaned) < MaxPasses
    /\ cleaned' = Append(cleaned,
                         clean_menu_text(IF cleaned = <<>> THEN raw_text
                                         ELSE cleaned[Len(cleaned)]))
    /\ pc' = "normalized"
    /\ UNCHANGED <<raw_text, verdict, week, week_map, outcome, reply, formatted, calls>>

NextNorm == Normalize

SpecNorm == InitNorm /\ [][NextNorm]_vars

\* C1: clean_menu_text is idempotent: a second pass over the result of the
\* first pass returns that result unchanged.
NormalizeIdempotent ==
    \A k \in 2..Len(cleaned) : cleaned[k] = cleaned[k - 1]

---------------------------------------------------------------------------
(* is_swedish_text                                                         *)

\* the characters of french_accents
french_accents == {"eacute","egrave","ecirc","agrave","acirc","icirc","iuml","ocirc",
                   "ucirc","ugrave","ccedil","oelig","ldquo","rdquo","rsquo","ordm",
                   "raquo","laquo"}

\* the characters of the literal tested against the line for swedish_letters
swedish_letter_chars == {"aring","auml","ouml","Aring","Auml","Ouml"}

\* the vocabulary tested against the lower-cased line for swedish_words
swedish_word_list == <<
    <<"m","e","d">>, <<"o","c","h">>, <<"s","aring","s">>, <<"p","o","t","a","t","i","s">>, <<"l","ouml","k">>, <<"g","r","auml","d","d","e">>, <<"k","y","c","k","l","i","n","g">>,
    <<"l","a","x">>, <<"f","l","auml","s","k">>, <<"n","ouml","t">>, <<"g","r","ouml","n","s","a","k","e","r">>, <<"r","i","s">>, <<"g","r","a","t","auml","n","g">>, <<"p","a","s","t","a">>,
    <<"g","r","y","t","a">>, <<"s","a","l","l","a","d">>, <<"d","a","g","e","n","s">>, <<"v","e","g","e","t","a","r">>, <<"w","a","l","l","e","n","b","e","r","g","a","r","e">> >>

\* \b between s[i-1] and s[i]
WordBoundary(s, i) ==
    LET before == i > 1 /\ i - 1 <= Len(s) /\ s[i - 1] \in WordChars
        after  == i >= 1 /\ i <= Len(s) /\ s[i] \in WordChars
    IN  before # after

\* re.search(rf"\b{w}\b", s)
HasWholeWord(s, w) ==
    \E i \in 1..(Len(s) - Len(w) + 1) :
        MatchAt(s, i, w) /\ WordBoundary(s, i) /\ WordBoundary(s, i + Len(w))

\* re.search(r"\bvecka\b|v\.\d+|\d+\s*:-|\d+kr|\bsek\b", s)
NoiseSearch(s) ==
    \/ HasWholeWord(s, <<"v","e","c","k","a">>)
    \/ \E i \in 1..Len(s) : MatchAt(s, i, <<"v",".">>) /\ i + 2 <= Len(s) /\ s[i + 2] \in Digits
    \/ \E i \in 1..Len(s) :
          /\ s[i] \in Digits
          /\ MatchAt(s, RunEnd(s, RunEnd(s, i, Digits), Whitespace), <<":","-">>)
    \/ \E i \in 1..Len(s) : s[i] \in Digits /\ MatchAt(s, i + 1, <<"k","r">>)
    \/ HasWholeWord(s, <<"s","e","k">>)

\* is_swedish_text with the inclusion tests run before the exclusion tests
is_swedish_text_InclusionFirst(line) ==
    IF line = <<>> THEN FALSE
    ELSE LET lowered == Strip(Lower(line))
             swedish_letters == \E i \in 1..Len(line) : line[i] \in swedish_letter_chars
             swedish_words == \E k \in 1..Len(swedish_word_list) :
                                  Contains(lowered, swedish_word_list[k])
         IN  IF swedish_letters \/ swedish_words THEN TRUE
             ELSE FALSE

\* is_swedish_text with the capital letters missing from the swedish_letters literal
is_swedish_text_SmallLettersOnly(line) ==
    IF line = <<>> THEN FALSE
    ELSE LET lowered == Strip(Lower(line))
         IN  IF \E i \in 1..Len(lowered) : lowered[i] \in french_accents THEN FALSE
             ELSE IF NoiseSearch(lowered) THEN FALSE
             ELSE LET swedish_letters == \E i \in 1..Len(line) : line[i] \in {"aring", "auml", "ouml"}
                      swedish_words == \E k \in 1..Len(swedish_word_list) :
                                           Contains(lowered, swedish_word_list[k])
                  IN  swedish_letters \/ swedish_words

is_swedish_text(line) ==
    IF line = <<>> THEN FALSE
    ELSE LET lowered == Strip(Lower(line))
         IN  IF \E i \in 1..Len(lowered) : lowered[i] \in french_accents THEN FALSE
             ELSE IF NoiseSearch(lowered) THEN FALSE
             ELSE LET swedish_letters == \E i \in 1..Len(line) : line[i] \in swedish_letter_chars
                      swedish_words == \E k \in 1..Len(swedish_word_list) :
                                           Contains(lowered, swedish_word_list[k])
                  IN  swedish_letters \/ swedish_words

---------------------------------------------------------------------------
(* Specification of the line classifier: is_swedish_text applied to one    *)
(* line.                                                                   *)

\* how many pieces an input line is made of
MaxLinePieces == 3

LinePalette == {
    <<"m","e","d">>, <<"L","A","X">>, <<"B","l","aring">>, <<"Ouml">>, <<"Eacute">>, <<"s","a","u","t","eacute">>, <<"laquo">>, <<" ">>, <<"\t">>, <<"x","y">>,
    <<"4","2">>, <<":","-">>, <<"k","r">>, <<"s","e","k">>, <<"V","e","c","k","a">>, <<"v",".">>, <<"!">> }

LineInputs == {Flatten(p) : p \in Pieces(LinePalette, MaxLinePieces)}

InitClassify ==
    /\ pc = "start"
    /\ raw_text \in LineInputs
    /\ cleaned = <<>>
    /\ Idle

\* the call is_swedish_text(raw_text)
Classify ==
    /\ pc = "start"
    /\ verdict' = is_swedish_text(raw_text)
    /\ pc' = "classified"
    /\ UNCHANGED <<raw_text, cleaned, week, week_map, outcome, reply, formatted, calls>>

NextClassify == Classify

SpecClassify == InitClassify /\ [][NextClassify]_vars

\* the line holds a character of the excluded-language accent set, in either case
HasExcludedChar(line) == \E i \in 1..Len(line) : LowerChar(line[i]) \in french_accents

\* the line matches a week or price noise pattern, in either case
HasNoise(line) == NoiseSearch(line) \/ NoiseSearch(Strip(Lower(line)))

\* the line holds a Swedish diacritic, in either case
HasSwedishDiacritic(line) ==
    \E i \in 1..Len(line) : LowerChar(line[i]) \in {"aring", "auml", "ouml"}

\* the line holds a vocabulary word as a substring, in either case
HasVocabularyWord(line) ==
    \E k \in 1..Len(swedish_word_list) : Contains(Lower(line), swedish_word_list[k])

\* C7: exclusion always wins: a line with an excluded-language character or a
\* week/price noise pattern is classified false, whatever else it holds.
ExclusionAlwaysWins ==
    (pc = "classified" /\ (HasExcludedChar(raw_text) \/ HasNoise(raw_text)))
        => verdict = FALSE

\* C7 witness: a rejected line that holds an excluded character or noise
\* together with a Swedish diacritic or a vocabulary word.
ExclusionWinsWitness ==
    /\ pc = "classified"
    /\ HasExcludedChar(raw_text) \/ HasNoise(raw_text)
    /\ HasSwedishDiacritic(raw_text) \/ HasVocabularyWord(raw_text)
    /\ verdict = FALSE

\* C8: default-reject: without excluded character and noise pattern, the line is
\* accepted exactly when it holds a Swedish diacritic or a vocabulary word;
\* empty, blank, numeric and symbol-only lines are rejected.
DefaultReject ==
    pc = "classified" =>
        /\ (~HasExcludedChar(raw_text) /\ ~HasNoise(raw_text)) =>
               (verdict = (HasSwedishDiacritic(raw_text) \/ HasVocabularyWord(raw_text)))
        /\ (\A i \in 1..Len(raw_text) : raw_text[i] \in Whitespace \cup Digits \cup {"!", ":", "-", "."})
               => verdict = FALSE

\* C8 witness: an accepted line whose only Swedish mark is a capital diacritic,
\* next to a classified line with nothing Swedish in it.
DefaultRejectWitness ==
    /\ pc = "classified"
    /\ ~HasExcludedChar(raw_text) /\ ~HasNoise(raw_text)
    /\ verdict = TRUE
    /\ ~HasVocabularyWord(raw_text)
    /\ \E i \in 1..Len(raw_text) : raw_text[i] = "Ouml"

---------------------------------------------------------------------------
(* extract_week_from_text                                                  *)

\* get_weekday_sequence()
get_weekday_sequence == <<
    <<"m","aring","n","d","a","g">>, <<"t","i","s","d","a","g">>, <<"o","n","s","d","a","g">>, <<"t","o","r","s","d","a","g">>, <<"f","r","e","d","a","g">> >>

\* text.replace("\r", "\n")
ReplaceCr(text) == [i \in 1..Len(text) |-> IF text[i] = "\r" THEN "\n" ELSE text[i]]

\* re.sub(r"\s*\|\s*", "\n", s) from index i on
RECURSIVE SubPipes(_, _)
SubPipes(s, i) ==
    IF i > Len(s) THEN <<>>
    ELSE LET e == RunEnd(s, i, Whitespace)
         IN  IF e <= Len(s) /\ s[e] = "|"
             THEN <<"\n">> \o SubPipes(s, RunEnd(s, e + 1, Whitespace))
             ELSE <<s[i]>> \o SubPipes(s, i + 1)

\* re.sub(r"\s{2,}", " ", s) from index i on
RECURSIVE SubSpaceRuns(_, _)
SubSpaceRuns(s, i) ==
    IF i > Len(s) THEN <<>>
    ELSE LET e == RunEnd(s, i, Whitespace)
         IN  IF e - i >= 2 THEN <<" ">> \o SubSpaceRuns(s, e)
             ELSE <<s[i]>> \o SubSpaceRuns(s, i + 1)

\* NormalizeSeparators with the pipes deleted instead of turned into newlines
NormalizeSeparators_PipesDeleted(raw) ==
    SubSpaceRuns(SelectSeq(ReplaceCr(raw), LAMBDA c : c # "|"), 1)

\* the text the day headers are searched in
NormalizeSeparators(raw) == SubSpaceRuns(SubPipes(ReplaceCr(raw), 1), 1)

\* character c of the text matches the lower-case pattern letter p under (?i):
\* re compares lower-cased characters and also takes the long s for "s" and the
\* dotless i for "i"
IgnoreCaseEq(c, p) ==
    \/ LowerChar(c) = p
    \/ p = "s" /\ c = "longs"
    \/ p = "i" /\ c = "inodot"

\* the pattern word matches at i under (?i)
MatchAtIgnoreCase(s, i, word) ==
    /\ i + Len(word) - 1 <= Len(s)
    /\ \A k \in 1..Len(word) : IgnoreCaseEq(s[i + k - 1], word[k])

\* day_pattern matched at i: the number of the weekday, 0 for no match
DayAt(s, i) ==
    LET hits == {k \in 1..Len(get_weekday_sequence) :
                    /\ MatchAtIgnoreCase(s, i, get_weekday_sequence[k])
                    /\ WordBoundary(s, i + Len(get_weekday_sequence[k]))}
    IN  IF hits = {} THEN 0 ELSE CHOOSE k \in hits : \A j \in hits : k <= j

\* list(re.finditer(day_pattern, s)) from index i on: start, end (the index
\* after the match) and the matched text of each match
RECURSIVE DayMatches(_, _)
DayMatches(s, i) ==
    IF i > Len(s) THEN <<>>
    ELSE LET k == DayAt(s, i)
         IN  IF k = 0 THEN DayMatches(s, i + 1)
             ELSE LET e == i + Len(get_weekday_sequence[k])
                  IN  <<[start |-> i, end |-> e, group |-> SubSeq(s, i, e - 1)]>>
                          \o DayMatches(s, e)

\* DictPut with the value of a key that is present extended instead of replaced
DictPut_Merged(d, key, value) ==
    IF \E k \in 1..Len(d) : d[k][1] = key
    THEN [k \in 1..Len(d) |-> IF d[k][1] = key THEN <<key, d[k][2] \o value>> ELSE d[k]]
    ELSE Append(d, <<key, value>>)

\* week[day] = dishes on a dict kept as a sequence of <<key, value>> in insertion order
DictPut(d, key, value) ==
    IF \E k \in 1..Len(d) : d[k][1] = key
    THEN [k \in 1..Len(d) |-> IF d[k][1] = key THEN <<key, value>> ELSE d[k]]
    ELSE Append(d, <<key, value>>)

\* key in d
DictHas(d, key) == \E k \in 1..Len(d) : d[k][1] = key

\* d[key]
DictGet(d, key) == d[CHOOSE k \in 1..Len(d) : d[k][1] = key][2]

\* the characters of the class [\n\.|(bullet)|-]
SplitDelimiters == {"\n", ".", "|", "bull", "-"}

\* \s*[\n\.|(bullet)|-]\s+ matched at i: the index after the match, 0 for no match.
\* \s* is greedy and gives characters back until a delimiter followed by
\* whitespace is found.
SplitMatchEnd(s, i) ==
    LET e == RunEnd(s, i, Whitespace)
        ok == {d \in i..e : /\ d <= Len(s)
                            /\ s[d] \in SplitDelimiters
                            /\ d + 1 <= Len(s)
                            /\ s[d + 1] \in Whitespace}
    IN  IF ok = {} THEN 0
        ELSE RunEnd(s, (CHOOSE d \in ok : \A x \in ok : x <= d) + 1, Whitespace)

\* re.split(r"\s*[\n\.|(bullet)|-]\s+", s): the parts from index i on, the current
\* part starting at from
RECURSIVE SplitParts(_, _, _)
SplitParts(s, i, from) ==
    IF i > Len(s) THEN <<SubSeq(s, from, Len(s))>>
    ELSE LET e == SplitMatchEnd(s, i)
         IN  IF e = 0 THEN SplitParts(s, i + 1, from)
             ELSE <<SubSeq(s, from, i - 1)>> \o SplitParts(s, e, e)

\* the characters of p.strip(" -\n\t:|(middle dot)")
PartStripChars == {" ", "-", "\n", "\t", ":", "|", "middot"}

\* the shortest part that is kept
MinPartLen == 6

\* the loop over the parts of one segment, from part k on
RECURSIVE SegmentDishes(_, _)
SegmentDishes(parts, k) ==
    IF k > Len(parts) THEN <<>>
    ELSE LET s == StripChars(parts[k], PartStripChars)
         IN  IF Len(s) < MinPartLen THEN SegmentDishes(parts, k + 1)
             ELSE IF is_swedish_text(s) THEN <<s>> \o SegmentDishes(parts, k + 1)
             ELSE SegmentDishes(parts, k + 1)

\* the loop over the matches, from match i on, week being the dict so far
RECURSIVE WeekFromMatches(_, _, _, _)
WeekFromMatches(text, matches, i, wk) ==
    IF i > Len(matches) THEN wk
    ELSE LET day == Lower(matches[i].group)
             start == matches[i].end
             end == IF i + 1 <= Len(matches) THEN matches[i + 1].start ELSE Len(text) + 1
             segment == Strip(SubSeq(text, start, end - 1))
             dishes == SegmentDishes(SplitParts(segment, 1, 1), 1)
         IN  WeekFromMatches(text, matches, i + 1,
                             IF dishes # <<>> THEN DictPut(wk, day, dishes) ELSE wk)

\* text.split(sep) from index i on, the current line starting at from
RECURSIVE SplitOn(_, _, _, _)
SplitOn(s, sep, i, from) ==
    IF i > Len(s) THEN <<SubSeq(s, from, Len(s))>>
    ELSE IF s[i] = sep THEN <<SubSeq(s, from, i - 1)>> \o SplitOn(s, sep, i + 1, i + 1)
    ELSE SplitOn(s, sep, i + 1, from)

\* [ln.strip() for ln in text.split("\n") if ln.strip()]
StrippedLines(text) ==
    LET all == SplitOn(text, "\n", 1, 1)
        kept == SelectSeq(all, LAMBDA ln : Strip(ln) # <<>>)
    IN  [k \in 1..Len(kept) |-> Strip(kept[k])]

\* any(re.search(rf"\b{d}\b", ln.lower()) for d in days)
HasDayWord(ln) ==
    \E k \in 1..Len(get_weekday_sequence) : HasWholeWord(Lower(ln), get_weekday_sequence[k])

\* DayToIndex with a weekday found anywhere in a line, inside a longer word too
DayToIndex_Substring(lines) ==
    [k \in 1..Len(get_weekday_sequence) |->
        LET hits == {i \in 1..Len(lines) : Contains(Lower(lines[i]), get_weekday_sequence[k])}
        IN  IF hits = {} THEN 0 ELSE CHOOSE i \in hits : \A j \in hits : i <= j]

\* day_to_index after the scan of the lines: for each weekday the first line
\* (counted from 1) that holds it as a word, 0 when no line does
DayToIndex(lines) ==
    [k \in 1..Len(get_weekday_sequence) |->
        LET hits == {i \in 1..Len(lines) : HasWholeWord(Lower(lines[i]), get_weekday_sequence[k])}
        IN  IF hits = {} THEN 0 ELSE CHOOSE i \in hits : \A j \in hits : i <= j]

\* ordered: the weekdays found, sorted by line, weekdays of one line in weekday order
RECURSIVE OrderedDays(_, _)
OrderedDays(idx, line) ==
    IF \A k \in 1..Len(idx) : idx[k] < line THEN <<>>
    ELSE SelectSeq([k \in 1..Len(idx) |-> k], LAMBDA k : idx[k] = line)
             \o OrderedDays(idx, line + 1)

\* the shortest line the fallback keeps is one character longer than this
MinLineLen == 6

\* the loop over the lines start+1 .. end-1 of one weekday, from line j on
RECURSIVE FallbackDishes(_, _, _)
FallbackDishes(lines, j, end) ==
    IF j >= end THEN <<>>
    ELSE LET ln == Strip(lines[j])
         IN  IF ln = <<>> THEN FallbackDishes(lines, j + 1, end)
             ELSE IF HasDayWord(ln) THEN <<>>
             ELSE IF Len(ln) > MinLineLen /\ is_swedish_text(ln)
                  THEN <<ln>> \o FallbackDishes(lines, j + 1, end)
             ELSE FallbackDishes(lines, j + 1, end)

\* the loop over ordered, from entry n on, week being the dict so far
RECURSIVE WeekFromLines(_, _, _, _, _)
WeekFromLines(lines, idx, ordered, n, wk) ==
    IF n > Len(ordered) THEN wk
    ELSE LET day == get_weekday_sequence[ordered[n]]
             start == idx[ordered[n]]
             end == IF n + 1 <= Len(ordered) THEN idx[ordered[n + 1]] ELSE Len(lines) + 1
             dishes == FallbackDishes(lines, start + 1, end)
         IN  WeekFromLines(lines, idx, ordered, n + 1,
                           IF dishes # <<>> THEN DictPut(wk, day, dishes) ELSE wk)

\* the fallback taken when the scan of the whole text finds no weekday
LineFallback(text) ==
    LET lines == StrippedLines(text)
        idx == DayToIndex(lines)
    IN  WeekFromLines(lines, idx, OrderedDays(idx, 1), 1, <<>>)

extract_week_from_text(raw) ==
    IF raw = <<>> THEN <<>>
    ELSE LET text == NormalizeSeparators(raw)
             matches == DayMatches(text, 1)
         IN  IF matches = <<>> THEN LineFallback(text)
             ELSE WeekFromMatches(text, matches, 1, <<>>)

---------------------------------------------------------------------------
(* Specification of the weekday segmenter: extract_week_from_text applied  *)
(* to one text.                                                            *)

\* str.upper() of one character
UpperChar(c) ==
    LET ups == {u \in UpperAscii \cup {"Aring", "Auml", "Ouml", "Eacute"} : LowerChar(u) = c}
    IN  IF ups = {} THEN c ELSE CHOOSE u \in ups : TRUE

\* str.capitalize()
Capitalize(s) == [i \in 1..Len(s) |-> IF i = 1 THEN UpperChar(s[1]) ELSE LowerChar(s[i])]

\* how many pieces a menu text is made of
MaxMenuPieces == 4

\* how many dish sentences follow the header of a long day
MaxDishSentences == 8

\* pieces of menu texts: headers, dishes, noise and separators
MenuPalette == {
    <<"M","aring","n","d","a","g">>, <<"f","r","e","d","a","g">>, <<"T","o","r","longs","d","a","g">>, <<":"," ","K","y","c","k","l","i","n","g"," ","m","e","d"," ","r","i","s","."," ">>, <<" ","|"," ","L","a","x"," ","m","e","d"," ","p","o","t","a","t","i","s">>,
    <<" ","V","e","c","k","a"," ","4","2"," ","l","a","x">> }

\* pieces of texts with a weekday name as the prefix of a longer word
PrefixPalette == { <<"M","aring","n","d","a","g">>, <<"s"," ">>, <<" ","|"," ","L","a","x"," ","m","e","d"," ","p","o","t","a","t","i","s">> }

\* pieces of texts without a weekday name
NoDayPalette == { <<"t","i","s">>, <<"d","a","g">>, <<"|">>, <<" ">>, <<"\n","L","a","x"," ","m","e","d"," ","p","o","t","a","t","i","s">> }

\* the menus of one or two days, each day written as its capitalized name, a
\* colon, one dish sentence and a period, with the dict the dishes belong to
MenuDishes == { <<"K","y","c","k","l","i","n","g"," ","m","e","d"," ","r","i","s">>, <<"L","a","x"," ","m","e","d"," ","p","o","t","a","t","i","s">> }

DayEntry(k, dish) == Capitalize(get_weekday_sequence[k]) \o <<":"," ">> \o dish \o <<".">>

ColonPeriodMenus ==
    {[text |-> DayEntry(a, d), week |-> << <<get_weekday_sequence[a], <<d>>>> >>] :
        a \in 1..Len(get_weekday_sequence), d \in MenuDishes}
    \cup
    {[text |-> DayEntry(p[1], p[3]) \o <<" ">> \o DayEntry(p[2], p[4]),
      week |-> << <<get_weekday_sequence[p[1]], <<p[3]>>>>,
                  <<get_weekday_sequence[p[2]], <<p[4]>>>> >>] :
        p \in {q \in (1..Len(get_weekday_sequence)) \X (1..Len(get_weekday_sequence))
                         \X MenuDishes \X MenuDishes : q[1] < q[2]}}

\* one header followed by n dish sentences
LongDay(n) == <<"M","aring","n","d","a","g">> \o Flatten([k \in 1..n |-> <<" ","l","a","x","r","i","s",".">>])

SegmentInputs ==
    {Flatten(p) : p \in Pieces(MenuPalette, MaxMenuPieces)}
    \cup {Flatten(p) : p \in Pieces(NoDayPalette, MaxMenuPieces)}
    \cup {Flatten(p) : p \in Pieces(PrefixPalette, MaxMenuPieces)}
    \cup {m.text : m \in ColonPeriodMenus}
    \cup {LongDay(n) : n \in 0..MaxDishSentences}

InitSegment ==
    /\ pc = "start"
    /\ raw_text \in SegmentInputs
    /\ cleaned = <<>>
    /\ Idle

\* the call extract_week_from_text(raw_text)
Extract ==
    /\ pc = "start"
    /\ week' = extract_week_from_text(raw_text)
    /\ pc' = "extracted"
    /\ UNCHANGED <<raw_text, cleaned, verdict, week_map, outcome, reply, formatted, calls>>

NextSegment == Extract

SpecSegment == InitSegment /\ [][NextSegment]_vars

\* the weekday names, as a set
WeekdayNames == {get_weekday_sequence[k] : k \in 1..Len(get_weekday_sequence)}

\* the text holds something the header scan takes for a weekday name, at a word
\* end or not
ContainsDayName(text) ==
    \E i \in 1..Len(text) : \E k \in 1..Len(get_weekday_sequence) :
        MatchAtIgnoreCase(text, i, get_weekday_sequence[k])

\* the cap on the lines of one day
DayCap == 6

\* C2: a text of weekday headers, each followed by a colon and one dish sentence
\* ending in a period, yields for each day exactly the dish text, without the
\* header punctuation and without the period.
ColonPeriodMenuYieldsDishes ==
    pc = "extracted" =>
        \A m \in ColonPeriodMenus : raw_text = m.text => week = m.week

\* C3: every day's bucket holds at most the cap of 6 lines.
PerDayCap ==
    pc = "extracted" => \A k \in 1..Len(week) : Len(week[k][2]) <= DayCap

\* C9: a text without any weekday name yields the empty map.
NoWeekdayYieldsEmptyMap ==
    (pc = "extracted" /\ ~ContainsDayName(raw_text)) => week = <<>>

\* C9 witness: a text of several lines with a pipe and an acceptable dish line
\* but no weekday name went through the scan and the fallback.
NoWeekdayWitness ==
    /\ pc = "extracted"
    /\ ~ContainsDayName(raw_text)
    /\ Contains(raw_text, <<"|">>)
    /\ Contains(raw_text, <<"d","a","g","\n","L","a","x"," ","m","e","d"," ","p","o","t","a","t","i","s">>)
    /\ week = <<>>

\* C10: every key of the returned map is one of the five lower-case weekday
\* names and maps to at least one dish line.
NoEmptyBucket ==
    pc = "extracted" =>
        \A k \in 1..Len(week) : week[k][1] \in WeekdayNames /\ week[k][2] # <<>>

---------------------------------------------------------------------------
(* _emoji_for_line, _format_lines_with_emojis and format_week_with_openai  *)

\* the mapping of _emoji_for_line: the keywords of each row and its symbol
emoji_mapping == <<
    [keys |-> <<<<"l","a","x">>, <<"f","i","s","k">>, <<"t","o","r","s","k">>, <<"s","i","l","l">>, <<"r","auml","k","o","r">>, <<"s","i","l","l">>>>, emoji |-> <<"emoji_fish">>],
    [keys |-> <<<<"k","y","c","k","l","i","n","g">>, <<"k","y","c","k","l">>>>, emoji |-> <<"emoji_poultry">>],
    [keys |-> <<<<"k","ouml","t","t","b","u","l","l","a","r">>, <<"f","l","auml","s","k">>, <<"n","ouml","t">>, <<"b","i","f","f">>, <<"o","x">>, <<"w","a","l","l","e","n","b","e","r","g","a","r","e">>>>, emoji |-> <<"emoji_meat">>],
    [keys |-> <<<<"p","a","s","t","a">>, <<"t","o","r","t","e","l","l","i","n","i">>, <<"l","a","s","a","g","n","e">>, <<"l","a","s","a","g","n","a">>>>, emoji |-> <<"emoji_pasta">>],
    [keys |-> <<<<"s","a","l","l","a","d">>, <<"c","e","a","s","a","r">>, <<"c","a","e","s","a","r">>>>, emoji |-> <<"emoji_salad">>],
    [keys |-> <<<<"s","o","p","p","a">>>>, emoji |-> <<"emoji_bowl">>],
    [keys |-> <<<<"v","e","g","e","t","a","r">>, <<"v","e","g","a","n","s","k">>, <<"v","e","g">>>>, emoji |-> <<"emoji_broccoli">>],
    [keys |-> <<<<"p","a","j">>, <<"q","u","i","c","h","e">>>>, emoji |-> <<"emoji_pie">>],
    [keys |-> <<<<"r","i","s">>>>, emoji |-> <<"emoji_rice">>],
    [keys |-> <<<<"p","o","t","a","t","i","s">>, <<"m","o","s">>>>, emoji |-> <<"emoji_potato">>],
    [keys |-> <<<<"g","r","y","t","a">>, <<"g","r","y","t">>>>, emoji |-> <<"emoji_stew">>],
    [keys |-> <<<<"b","u","r","g","a","r","e">>, <<"b","u","r","g","e","r">>>>, emoji |-> <<"emoji_burger">>],
    [keys |-> <<<<"k","e","b","a","b">>, <<"f","a","l","a","f","e","l">>>>, emoji |-> <<"emoji_flatbread">>] >>

\* the symbol returned when no row matches: the plate with its variation selector
default_emoji == <<"emoji_plate", "vs16">>

\* _emoji_for_line with the last matching row taken instead of the first
_emoji_for_line_LastRow(text) ==
    LET t == Lower(text)
        rows == {r \in 1..Len(emoji_mapping) :
                    \E k \in 1..Len(emoji_mapping[r].keys) : Contains(t, emoji_mapping[r].keys[k])}
    IN  IF rows = {} THEN default_emoji
        ELSE emoji_mapping[CHOOSE r \in rows : \A q \in rows : q <= r].emoji

_emoji_for_line(text) ==
    LET t == Lower(text)
        rows == {r \in 1..Len(emoji_mapping) :
                    \E k \in 1..Len(emoji_mapping[r].keys) : Contains(t, emoji_mapping[r].keys[k])}
    IN  IF rows = {} THEN default_emoji
        ELSE emoji_mapping[CHOOSE r \in rows : \A q \in rows : r <= q].emoji

\* sep.join(texts)
RECURSIVE Join(_, _)
Join(sep, texts) ==
    IF texts = <<>> THEN <<>>
    ELSE IF Len(texts) = 1 THEN texts[1]
    ELSE texts[1] \o sep \o Join(sep, Tail(texts))

_format_lines_with_emojis(lines) ==
    Join(<<"\n">>, [k \in 1..Len(lines) |-> _emoji_for_line(lines[k]) \o <<" ">> \o lines[k]])

\* week_map.get(day, [])
DictGetOr(d, key, default) == IF DictHas(d, key) THEN DictGet(d, key) ELSE default

\* plain: one block for each weekday, in weekday order, that has items
PlainBlocks(wm) ==
    LET has == SelectSeq([k \in 1..Len(get_weekday_sequence) |-> k],
                         LAMBDA k : DictGetOr(wm, get_weekday_sequence[k], <<>>) # <<>>)
    IN  [n \in 1..Len(has) |->
            Capitalize(get_weekday_sequence[has[n]]) \o <<":","\n">>
                \o Join(<<"\n">>, DictGet(wm, get_weekday_sequence[has[n]]))]

\* ^(Day)\s*:\s*$ under (?mi) matched at i: the weekday matched and the index
\* after the match, 0 for no match.  The last \s* is greedy and gives
\* characters back until $ holds: at the end of the text or before a newline.
HeaderAt(s, i) ==
    IF ~(i = 1 \/ s[i - 1] = "\n") THEN [day |-> 0, end |-> 0]
    ELSE LET days == {k \in 1..Len(get_weekday_sequence) :
                         MatchAtIgnoreCase(s, i, get_weekday_sequence[k])}
         IN  IF days = {} THEN [day |-> 0, end |-> 0]
             ELSE \* the weekday names differ, so at most one of them matches at i
                  LET k == CHOOSE d \in days : TRUE
                      colon == RunEnd(s, i + Len(get_weekday_sequence[k]), Whitespace)
                      last == RunEnd(s, colon + 1, Whitespace)
                      ends == {e \in (colon + 1)..last : e = Len(s) + 1 \/ s[e] = "\n"}
                  IN  IF colon <= Len(s) /\ s[colon] = ":" /\ ends # {}
                      THEN [day |-> k, end |-> CHOOSE e \in ends : \A x \in ends : x <= e]
                      ELSE [day |-> 0, end |-> 0]

\* re.split(header, s): the sections from index i on, the current one starting
\* at from; a header adds the text of its group
RECURSIVE SplitSections(_, _, _)
SplitSections(s, i, from) ==
    IF i > Len(s) THEN <<SubSeq(s, from, Len(s))>>
    ELSE LET h == HeaderAt(s, i)
         IN  IF h.day = 0 THEN SplitSections(s, i + 1, from)
             ELSE <<SubSeq(s, from, i - 1),
                    SubSeq(s, i, i + Len(get_weekday_sequence[h.day]) - 1)>>
                      \o SplitSections(s, h.end, h.end)

\* the loop over sections, from section n on: tmp_day is <<>> for None
RECURSIVE ParseSections(_, _, _, _)
ParseSections(sections, n, tmp_day, fm) ==
    IF n > Len(sections) THEN fm
    ELSE LET part == sections[n]
             low == Lower(part)
         IN  IF part = <<>> THEN ParseSections(sections, n + 1, tmp_day, fm)
             ELSE IF low \in {get_weekday_sequence[k] : k \in 1..Len(get_weekday_sequence)}
                  THEN ParseSections(sections, n + 1, low, fm)
             ELSE IF tmp_day # <<>>
                  THEN ParseSections(sections, n + 1, <<>>, DictPut(fm, tmp_day, Strip(part)))
             ELSE ParseSections(sections, n + 1, tmp_day, fm)

\* for day in week_map: if day not in formatted: formatted[day] = local formatting
RECURSIVE FillMissing(_, _, _)
FillMissing(wm, n, fm) ==
    IF n > Len(wm) THEN fm
    ELSE FillMissing(wm, n + 1,
                     IF DictHas(fm, wm[n][1]) THEN fm
                     ELSE DictPut(fm, wm[n][1], _format_lines_with_emojis(wm[n][2])))

\* the except branch with nothing done: the map is returned as it is
LocalFallback_Forgotten(wm, fm) == fm

\* the except branch: every day of week_map gets its local formatting
RECURSIVE LocalFallback(_, _)
LocalFallback(wm, fm) ==
    IF wm = <<>> THEN fm
    ELSE LocalFallback(Tail(wm), DictPut(fm, wm[1][1], _format_lines_with_emojis(wm[1][2])))

\* how a call can go: the client cannot be created, the request fails, the
\* response cannot be read, the service replies
Outcomes == {"client_error", "request_error", "response_error", "replied"}

\* format_week_with_openai(wm, _) when the service behaves as env says and, if
\* it replies, replies content: the dict returned, the requests sent and what
\* happened ("nothing_to_send" for the return before the request)
format_week_with_openai(wm, env, content) ==
    IF env = "client_error"
    THEN [formatted |-> LocalFallback(wm, <<>>), calls |-> 0, outcome |-> env]
    ELSE IF PlainBlocks(wm) = <<>>
    THEN [formatted |-> <<>>, calls |-> 0, outcome |-> "nothing_to_send"]
    ELSE IF env \in {"request_error", "response_error"}
    THEN [formatted |-> LocalFallback(wm, <<>>), calls |-> 1, outcome |-> env]
    ELSE LET out == Strip(content)
             sections == SplitSections(out, 1, 1)
             parsed == ParseSections(sections, 1, <<>>, <<>>)
         IN  [formatted |-> FillMissing(wm, 1, parsed), calls |-> 1, outcome |-> env]

---------------------------------------------------------------------------
(* Specification of the reconciler: format_week_with_openai applied to one *)
(* week map, the service failing or replying some text.                    *)

\* how many pieces a reply is made of
MaxReplyPieces == 3

\* the dish lists of the week maps
ItemLists == { <<>>, <<<<"K","y","c","k","l","i","n","g"," ","m","e","d"," ","r","i","s">>>>, <<<<"P","a","n","n","k","a","k","o","r">>, <<"L","a","x"," ","m","e","d"," ","p","o","t","a","t","i","s">>>> }

\* the weekdays of the week maps
MapDays == { <<"m","aring","n","d","a","g">>, <<"t","i","s","d","a","g">> }

\* the week maps: no, one or two days, in either insertion order
FormatMaps ==
    {<<>>}
    \cup {<< <<d, l>> >> : d \in MapDays, l \in ItemLists}
    \cup {<< <<p[1], p[3]>>, <<p[2], p[4]>> >> :
            p \in {q \in MapDays \X MapDays \X ItemLists \X ItemLists : q[1] # q[2]}}

\* pieces of replies: headers, a formatted line, a blank line, a header with
\* something after the colon
ReplyPalette == {
    <<"M","aring","n","d","a","g",":","\n">>, <<"t","i","s","d","a","g"," ",":","\n">>, <<"emoji_poultry"," ","K","y","c","k","l","i","n","g"," ","m","e","d"," ","r","i","s","\n">>, <<" ","\n">>, <<"M","aring","n","d","a","g",":"," ">> }

ReplyInputs == {Flatten(p) : p \in Pieces(ReplyPalette, MaxReplyPieces)}

InitFormat ==
    /\ pc = "start"
    /\ week_map \in FormatMaps
    /\ raw_text = <<>>
    /\ cleaned = <<>>
    /\ verdict = FALSE
    /\ week = <<>>
    /\ outcome = "none"
    /\ reply = <<>>
    /\ formatted = <<>>
    /\ calls = 0

\* the call format_week_with_openai(week_map, _) with the service behaving as env
Format(env, content) ==
    /\ pc = "start"
    /\ \E r \in {format_week_with_openai(week_map, env, content)} :
        /\ formatted' = r.formatted
        /\ calls' = r.calls
        /\ outcome' = r.outcome
        /\ reply' = IF r.outcome = "replied" THEN content ELSE <<>>
        /\ pc' = "formatted"
        /\ UNCHANGED <<raw_text, cleaned, verdict, week, week_map>>

FormatClientError == Format("client_error", <<>>)

FormatRequestError == Format("request_error", <<>>)

FormatResponseError == Format("response_error", <<>>)

FormatReplied == pc = "start" /\ \E content \in ReplyInputs : Format("replied", content)

NextFormat ==
    \/ FormatClientError
    \/ FormatRequestError
    \/ FormatResponseError
    \/ FormatReplied

SpecFormat == InitFormat /\ [][NextFormat]_vars

\* the keys of a dict
DictKeys(d) == {d[k][1] : k \in 1..Len(d)}

\* the dict is a WeekMap: weekday keys, each with at least one dish
IsWeekMap(d) ==
    \A k \in 1..Len(d) : d[k][1] \in WeekdayNames /\ d[k][2] # <<>>

\* the service call failed
ServiceFailed == outcome \in {"client_error", "request_error", "response_error"}

\* C4: for a WeekMap the returned map has exactly the keys of the input,
\* whatever the service replies and when it fails.
KeyCoverage ==
    (pc = "formatted" /\ IsWeekMap(week_map)) => DictKeys(formatted) = DictKeys(week_map)

\* C5: when the service call fails, every day of the input with at least one
\* dish gets a non-empty string, the local formatting of its dishes.
FailureFallsBackToLocal ==
    (pc = "formatted" /\ ServiceFailed) =>
        \A k \in 1..Len(week_map) :
            week_map[k][2] # <<>> =>
                /\ DictHas(formatted, week_map[k][1])
                /\ DictGet(formatted, week_map[k][1]) # <<>>
                /\ DictGet(formatted, week_map[k][1]) = _format_lines_with_emojis(week_map[k][2])

\* C5 witness: a failed request for a map of two days with dishes, both of
\* which came back formatted.
FailureFallbackWitness ==
    /\ pc = "formatted"
    /\ outcome = "request_error"
    /\ Len(week_map) = 2
    /\ \A k \in 1..Len(week_map) : week_map[k][2] # <<>>
    /\ Len(formatted) = 2
    /\ \E k \in 1..Len(formatted) : formatted[k][2] = <<"emoji_plate","vs16"," ","P","a","n","n","k","a","k","o","r","\n","emoji_fish"," ","L","a","x"," ","m","e","d"," ","p","o","t","a","t","i","s">>

\* C6: every day of the input with at least one dish gets a non-empty string,
\* whether the service fails or replies, and whatever it replies.
NeverEmptyForDayWithDishes ==
    (pc = "formatted" /\ outcome # "nothing_to_send") =>
        \A k \in 1..Len(week_map) :
            week_map[k][2] # <<>> =>
                /\ DictHas(formatted, week_map[k][1])
                /\ DictGet(formatted, week_map[k][1]) # <<>>

---------------------------------------------------------------------------
(* scrape_la_gare_menu: the segmentation of the page text into days        *)

exclude_keywords == <<
    <<"r","e","s","t","a","u","r","a","n","g"," ","l","a"," ","g","a","r","e">>, <<"h","aring","l","l","b","a","r","h","e","t">>, <<"v","aring","r","a"," ","h","o","t","e","l","l">>, <<"b","l","i"," ","m","e","d","l","e","m">>, <<"f","ouml","r","e","t","a","g","s","a","v","t","a","l">>,
    <<"i","d","r","o","t","t","s","l","a","g">>, <<"a","n","v","auml","n","d","a","r","v","i","l","l","k","o","r">>, <<"s","e","k","r","e","t","e","s","s","p","o","l","i","c","y">>, <<"b","e","d","r","auml","g","e","r","i">>, <<"o","m","d","ouml","m","e","n">>,
    <<"v","a","r","m","t"," ","v","auml","l","k","o","m","m","e","n">>, <<"f","r","aring","g","a"," ","p","e","r","s","o","n","a","l","e","n">> >>

is_noise(ln) ==
    \E k \in 1..Len(exclude_keywords) : Contains(Lower(ln), exclude_keywords[k])

\* day_indices: for each weekday the first line (counted from 1) whose stripped,
\* lower-cased text holds it as a word, 0 when no line does
DayIndices(lines) ==
    [k \in 1..Len(get_weekday_sequence) |->
        LET hits == {i \in 1..Len(lines) :
                        HasWholeWord(Lower(Strip(lines[i])), get_weekday_sequence[k])}
        IN  IF hits = {} THEN 0 ELSE CHOOSE i \in hits : \A j \in hits : i <= j]

\* any(d in ln.lower() for d in days)
HasDaySubstring(ln) ==
    \E k \in 1..Len(get_weekday_sequence) : Contains(Lower(ln), get_weekday_sequence[k])

\* the shortest line kept is one character longer than this
MinLaGareLen == 8

\* the safety cap on the lines of one day
LaGareCap == 6

\* the loop over the lines start+1 .. end-1 of one day, from line j on
RECURSIVE LaGareBucket(_, _, _, _)
LaGareBucket(lines, j, end, bucket) ==
    IF j >= end THEN bucket
    ELSE LET ln == Strip(lines[j])
         IN  IF ln = <<>> THEN LaGareBucket(lines, j + 1, end, bucket)
             ELSE IF HasDaySubstring(ln) THEN bucket
             ELSE IF is_noise(ln) THEN LaGareBucket(lines, j + 1, end, bucket)
             ELSE LET b == IF Len(ln) > MinLaGareLen /\ is_swedish_text(ln)
                           THEN Append(bucket, ln) ELSE bucket
                  IN  IF Len(b) >= LaGareCap THEN b
                      ELSE LaGareBucket(lines, j + 1, end, b)

\* the line is a vegetarian marker
IsVegMarker(line) ==
    \E key \in {<<"d","a","g","e","n","s"," ","v","e","g">>, <<"v","e","g","e","t","a","r">>, <<"v","e","g",".">>} : Contains(Lower(line), key)

\* how many lines after the marker are looked at
VegWindow == 5

\* VegLine without the test of the length of the line
RECURSIVE VegLine_NoLengthCheck(_, _, _)
VegLine_NoLengthCheck(lines, i, j) ==
    IF j > i + VegWindow \/ j > Len(lines) THEN <<>>
    ELSE LET veg_line == Strip(lines[j])
         IN  IF is_noise(veg_line) THEN VegLine_NoLengthCheck(lines, i, j + 1)
             ELSE IF is_swedish_text(veg_line)
                  THEN <<<<"V","e","g","e","t","a","r","i","s","k",":"," ">> \o veg_line>>
             ELSE VegLine_NoLengthCheck(lines, i, j + 1)

\* the loop over the lines after the marker line i, from line j on
RECURSIVE VegLine(_, _, _)
VegLine(lines, i, j) ==
    IF j > i + VegWindow \/ j > Len(lines) THEN <<>>
    ELSE LET veg_line == Strip(lines[j])
         IN  IF is_noise(veg_line) THEN VegLine(lines, i, j + 1)
             ELSE IF Len(veg_line) > MinLaGareLen /\ is_swedish_text(veg_line)
                  THEN <<<<"V","e","g","e","t","a","r","i","s","k",":"," ">> \o veg_line>>
             ELSE VegLine(lines, i, j + 1)

\* the bucket after the try to enrich it with the vegetarian option
WithVegetarian(lines, bucket) ==
    IF \E k \in 1..Len(bucket) :
           Contains(Lower(bucket[k]), <<"v","e","g","e","t","a","r">>) \/ Contains(Lower(bucket[k]), <<"v","e","g">>)
    THEN bucket
    ELSE LET markers == {i \in 1..Len(lines) : IsVegMarker(lines[i])}
         IN  IF markers = {} THEN bucket
             ELSE LET i == CHOOSE m \in markers : \A x \in markers : m <= x
                  IN  bucket \o VegLine(lines, i, i + 1)

\* the loop over ordered, from entry n on, wm being week_map so far
RECURSIVE LaGareWeek(_, _, _, _, _)
LaGareWeek(lines, idx, ordered, n, wm) ==
    IF n > Len(ordered) THEN wm
    ELSE LET day == get_weekday_sequence[ordered[n]]
             start == idx[ordered[n]]
             end == IF n + 1 <= Len(ordered) THEN idx[ordered[n + 1]] ELSE Len(lines) + 1
             bucket == WithVegetarian(lines, LaGareBucket(lines, start + 1, end, <<>>))
         IN  LaGareWeek(lines, idx, ordered, n + 1,
                        IF bucket # <<>> THEN DictPut(wm, day, bucket) ELSE wm)

\* week_map as scrape_la_gare_menu builds it from the text of the page; the
\* function returns it when it is not empty, and None otherwise
la_gare_week_map(page_text) ==
    LET lines == SplitOn(page_text, "\n", 1, 1)
        idx == DayIndices(lines)
    IN  LaGareWeek(lines, idx, OrderedDays(idx, 1), 1, <<>>)

---------------------------------------------------------------------------
(* Specification of the La Gare segmenter: the page text segmented once.   *)

\* how many pieces a page text is made of
MaxPagePieces == 4

\* how many dish lines follow the header of a long day
MaxDishLines == 7

PagePalette == {
    <<"M","aring","n","d","a","g","\n">>, <<"L","u","n","c","h"," ","f","r","e","d","a","g",":","\n">>, <<"K","y","c","k","l","i","n","g"," ","m","e","d"," ","r","i","s","\n">>, <<"D","a","g","e","n","s"," ","v","e","g",".","\n">>,
    <<"P","a","s","t","a"," ","m","e","d"," ","g","r","ouml","n","s","a","k","e","r","\n">>, <<"V","a","r","m","t"," ","v","auml","l","k","o","m","m","e","n"," ","m","e","d","\n">> }

\* a header, n dish lines, and a vegetarian marker with its line
LongPage(n) ==
    <<"M","aring","n","d","a","g","\n">> \o Flatten([k \in 1..n |-> <<"l","a","x","o","c","h","r","i","s","\n">>]) \o <<"v","e","g",".","\n","p","a","s","t","a"," ","o","c","h"," ","l","a","x">>

\* pieces of pages with a vegetarian marker that is no dish line itself, followed
\* by a short line and by dish lines
VegPalette == {
    <<"M","aring","n","d","a","g","\n">>, <<"K","y","c","k","l","i","n","g"," ","m","e","d"," ","r","i","s","\n">>, <<"v","e","g",".","\n">>, <<"L","a","x"," ","r","i","s","\n">>, <<"P","a","s","t","a"," ","m","e","d"," ","o","s","t","\n">> }

PageInputs ==
    {Flatten(p) : p \in Pieces(PagePalette, MaxPagePieces)}
    \cup {Flatten(p) : p \in Pieces(VegPalette, MaxPagePieces)}
    \cup {LongPage(n) : n \in 0..MaxDishLines}

InitLaGare ==
    /\ pc = "start"
    /\ raw_text \in PageInputs
    /\ cleaned = <<>>
    /\ Idle

\* the segmentation of the page text raw_text by scrape_la_gare_menu
ScrapeLaGare ==
    /\ pc = "start"
    /\ week' = la_gare_week_map(raw_text)
    /\ pc' = IF week' = <<>> THEN "la_gare_none" ELSE "la_gare_found"
    /\ UNCHANGED <<raw_text, cleaned, verdict, week_map, outcome, reply, formatted, calls>>

NextLaGare == ScrapeLaGare

SpecLaGare == InitLaGare /\ [][NextLaGare]_vars

\* C3, for the La Gare segmenter (under SpecLaGare): every day's bucket holds at
\* most the cap of 6 lines, the appended vegetarian line included.
LaGarePerDayCap ==
    pc = "la_gare_found" => \A k \in 1..Len(week) : Len(week[k][2]) <= DayCap

\* C10, for the La Gare segmenter (under SpecLaGare): every key of the map is a
\* weekday name and maps to at least one line.
LaGareNoEmptyBucket ==
    pc \in {"la_gare_found", "la_gare_none"} =>
        \A k \in 1..Len(week) : week[k][1] \in WeekdayNames /\ week[k][2] # <<>>

---------------------------------------------------------------------------
(* Order of the days, dish lines, line fallback and repeated headers.      *)

\* the number of a weekday name in get_weekday_sequence
DayNumber(day) == CHOOSE k \in 1..Len(get_weekday_sequence) : get_weekday_sequence[k] = day

\* C11: the days of the returned map are listed in Monday to Friday order,
\* whatever the order of the headers in the text.
DaysInNaturalOrder ==
    pc = "extracted" =>
        \A i \in 1..Len(week) : \A j \in 1..Len(week) :
            (i < j /\ week[i][1] \in WeekdayNames /\ week[j][1] \in WeekdayNames)
                => DayNumber(week[i][1]) < DayNumber(week[j][1])

\* C12: every invocation of format_week_with_openai in which the client could
\* be built sends exactly one request to the service.
ExactlyOneRequest ==
    (pc = "formatted" /\ outcome # "client_error") => calls = 1

\* C13: every dish line of the returned map is a non-empty trimmed string that
\* is_swedish_text accepts, has at least 6 characters and holds none of the
\* delimiter characters newline, period, pipe, bullet and dash.
DishLineInvariant ==
    pc = "extracted" =>
        \A k \in 1..Len(week) : \A n \in 1..Len(week[k][2]) :
            LET s == week[k][2][n]
            IN  /\ s # <<>>
                /\ Strip(s) = s
                /\ is_swedish_text(s)
                /\ Len(s) >= MinPartLen
                /\ \A i \in 1..Len(s) : s[i] \notin SplitDelimiters

\* the reply parsed into sections: the days the reply has a section for
ParsedReply == ParseSections(SplitSections(Strip(reply), 1, 1), 1, <<>>, <<>>)

\* row r of the keyword table matches the dish
RowMatches(r, dish) ==
    \E k \in 1..Len(emoji_mapping[r].keys) : Contains(Lower(dish), emoji_mapping[r].keys[k])

\* sym is the symbol of the first row that matches the dish, the generic symbol
\* when no row matches
IsSymbolOf(sym, dish) ==
    \/ \E r \in 1..Len(emoji_mapping) :
        /\ RowMatches(r, dish)
        /\ \A q \in 1..(r - 1) : ~RowMatches(q, dish)
        /\ sym = emoji_mapping[r].emoji
    \/ /\ \A r \in 1..Len(emoji_mapping) : ~RowMatches(r, dish)
       /\ sym = default_emoji

\* text is one line per dish, in order: the symbol of the dish, a space, the dish
IsLocalFormatting(text, dishes) ==
    IF dishes = <<>> THEN text = <<>>
    ELSE LET lines == SplitOn(text, "\n", 1, 1)
         IN  /\ Len(lines) = Len(dishes)
             /\ \A k \in 1..Len(dishes) :
                    /\ Len(lines[k]) > Len(dishes[k])
                    /\ SubSeq(lines[k], Len(lines[k]) - Len(dishes[k]), Len(lines[k]))
                           = <<" ">> \o dishes[k]
                    /\ IsSymbolOf(SubSeq(lines[k], 1, Len(lines[k]) - Len(dishes[k]) - 1),
                                  dishes[k])

\* C14: after a reply of the service, every day of the input that the parsed
\* reply has no section for gets the local formatting of its dishes (one line
\* per dish, in order: the symbol of the first matching row of the keyword
\* table, or the generic symbol, then the dish); a day the parsed reply has a
\* section for keeps that section's text.
MissingDaysGetLocalFormatting ==
    (pc = "formatted" /\ outcome = "replied") =>
        \A n \in 1..Len(week_map) :
            LET day == week_map[n][1]
            IN  /\ DictHas(formatted, day)
                /\ IF DictHas(ParsedReply, day)
                   THEN DictGet(formatted, day) = DictGet(ParsedReply, day)
                   ELSE IsLocalFormatting(DictGet(formatted, day), week_map[n][2])

\* C14 witness: the service replied with a section for Tuesday only, and Monday,
\* whose dish matches two rows of the keyword table, was formatted locally
\* next to the section kept for Tuesday.
MissingDayWitness ==
    /\ pc = "formatted"
    /\ outcome = "replied"
    /\ DictHas(week_map, <<"m","aring","n","d","a","g">>)
    /\ DictHas(week_map, <<"t","i","s","d","a","g">>)
    /\ DictGet(week_map, <<"m","aring","n","d","a","g">>) = <<<<"K","y","c","k","l","i","n","g"," ","m","e","d"," ","r","i","s">>>>
    /\ ~DictHas(ParsedReply, <<"m","aring","n","d","a","g">>)
    /\ DictHas(ParsedReply, <<"t","i","s","d","a","g">>)
    /\ DictGet(formatted, <<"m","aring","n","d","a","g">>) = <<"emoji_poultry"," ","K","y","c","k","l","i","n","g"," ","m","e","d"," ","r","i","s">>
    /\ DictGet(formatted, <<"t","i","s","d","a","g">>) = DictGet(ParsedReply, <<"t","i","s","d","a","g">>)

---------------------------------------------------------------------------
(* The vegetarian merge of the La Gare segmenter.                          *)

\* the lines of the page
PageLines == SplitOn(raw_text, "\n", 1, 1)

\* the bucket holds a line recognizable as vegetarian
HasVegetarianEntry(bucket) ==
    \E k \in 1..Len(bucket) : Contains(Lower(bucket[k]), <<"v","e","g">>)

\* the lines among the 5 after the first marker that are no noise, are accepted
\* by the classifier and are longer than min characters
VegCandidates(lines, min) ==
    LET markers == {i \in 1..Len(lines) : IsVegMarker(lines[i])}
    IN  IF markers = {} THEN {}
        ELSE \* the first marker line
             LET i == CHOOSE m \in markers : \A x \in markers : m <= x
             IN  {j \in (i + 1)..(i + 5) :
                     /\ j <= Len(lines)
                     /\ ~is_noise(Strip(lines[j]))
                     /\ is_swedish_text(Strip(lines[j]))
                     /\ Len(Strip(lines[j])) > min}

\* for the days being bucketed (days: their numbers in the order of their
\* lines, idx: the line of each weekday): the bucket returned for a day, empty
\* when the day is left out, is the one collected for it, followed, when that
\* has no vegetarian entry and there is a candidate, by the first candidate
\* with its prefix
MergedWith(lines, idx, days, cands) ==
    \A n \in 1..Len(days) :
        \A collected \in {LaGareBucket(lines, idx[days[n]] + 1,
                                       IF n + 1 <= Len(days) THEN idx[days[n + 1]]
                                       ELSE Len(lines) + 1,
                                       <<>>)} :
            DictGetOr(week, get_weekday_sequence[days[n]], <<>>) =
                IF HasVegetarianEntry(collected) \/ cands = {}
                THEN collected
                ELSE Append(collected,
                            <<"V","e","g","e","t","a","r","i","s","k",":"," ">>
                                \o Strip(lines[CHOOSE j \in cands : \A x \in cands : j <= x]))

\* the merge took the candidates longer than min characters
MergeTook(min) ==
    \A lines \in {PageLines} :
        \A idx \in {DayIndices(lines)} :
            MergedWith(lines, idx, OrderedDays(idx, 1), VegCandidates(lines, min))

\* C15 as stated: a bucket without a vegetarian entry gets, with the prefix
\* "Vegetarisk: ", the first non-noise line accepted by the classifier among the
\* 5 lines after the first marker line; a bucket with a vegetarian entry is
\* left unchanged; no bucket gets more than one such line.
VegetarianMergeAsStated ==
    pc \in {"la_gare_found", "la_gare_none"} => MergeTook(0)

\* C15 amended: the line appended is the first non-noise line accepted by the
\* classifier that is longer than 8 characters among the 5 lines after the
\* first marker line; the rest as stated.
VegetarianMerge ==
    pc \in {"la_gare_found", "la_gare_none"} => MergeTook(MinLaGareLen)

\* C15 witness: a page whose marker is followed by an accepted line of 7
\* characters and then by a longer one; Monday's bucket had no vegetarian entry
\* and got the longer line.
VegetarianMergeWitness ==
    /\ pc = "la_gare_found"
    /\ Contains(raw_text, <<"v","e","g",".","\n","L","a","x"," ","r","i","s","\n","P","a","s","t","a"," ","m","e","d"," ","o","s","t">>)
    /\ DictHas(week, <<"m","aring","n","d","a","g">>)
    /\ DictGet(week, <<"m","aring","n","d","a","g">>) = <<<<"P","a","s","t","a"," ","m","e","d"," ","o","s","t">>, <<"V","e","g","e","t","a","r","i","s","k",":"," ","P","a","s","t","a"," ","m","e","d"," ","o","s","t">>>>

---------------------------------------------------------------------------
(* The line fallback and repeated headers of extract_week_from_text.       *)

\* the weekday occurrences the scan of the whole text finds in raw_text
ScanMatches == DayMatches(NormalizeSeparators(raw_text), 1)

\* C16: whenever the scan of the whole text finds no weekday occurrence, the
\* returned map is empty: the line fallback never contributes a day.
FallbackNeverContributes ==
    (pc = "extracted" /\ ScanMatches = <<>>) => week = <<>>

\* C16 witness: a text with a weekday name only as the prefix of a longer word,
\* followed on the next line by an acceptable dish line, went through the
\* fallback and gave the empty map.
FallbackWitness ==
    /\ pc = "extracted"
    /\ Contains(raw_text, <<"M","aring","n","d","a","g","s"," ">>)
    /\ Contains(raw_text, <<"|"," ","L","a","x"," ","m","e","d"," ","p","o","t","a","t","i","s">>)
    /\ ScanMatches = <<>>
    /\ week = <<>>

\* the dishes accepted in the segment after the i-th weekday occurrence
OccurrenceDishes(text, matches, i) ==
    LET end == IF i + 1 <= Len(matches) THEN matches[i + 1].start ELSE Len(text) + 1
    IN  SegmentDishes(SplitParts(Strip(SubSeq(text, matches[i].end, end - 1)), 1, 1), 1)

\* every day named in the text has the dishes of its last occurrence with at
\* least one dish, and is left out when no occurrence of it has a dish
LastOccurrenceWins(text, matches) ==
    \A dishes \in {[i \in 1..Len(matches) |-> OccurrenceDishes(text, matches, i)]} :
        \A n \in 1..Len(matches) :
            LET day == Lower(matches[n].group)
                occ == {i \in 1..Len(matches) :
                           Lower(matches[i].group) = day /\ dishes[i] # <<>>}
            IN  IF occ = {} THEN ~DictHas(week, day)
                ELSE /\ DictHas(week, day)
                     /\ DictGet(week, day) = dishes[CHOOSE i \in occ : \A x \in occ : x <= i]

\* C17: when a weekday name occurs more than once, the segments are not
\* merged: the day's bucket is the dishes of the last occurrence whose segment
\* yields a dish, earlier occurrences are discarded, and an occurrence without
\* a dish leaves an earlier bucket as it is.
RepeatedDayLastWins ==
    pc = "extracted" =>
        \A text \in {NormalizeSeparators(raw_text)} :
            \A matches \in {DayMatches(text, 1)} : LastOccurrenceWins(text, matches)

\* C17 witness: Monday occurs twice, each time with a dish of its own, and the
\* returned bucket is the dish of the second occurrence alone.
RepeatedDayWitness ==
    /\ pc = "extracted"
    /\ Contains(raw_text, <<"M","aring","n","d","a","g",":"," ","K","y","c","k","l","i","n","g"," ","m","e","d"," ","r","i","s","."," ","M","aring","n","d","a","g"," ","|"," ","L","a","x"," ","m","e","d"," ","p","o","t","a","t","i","s">>)
    /\ Len(ScanMatches) = 2
    /\ week = << <<<<"m","aring","n","d","a","g">>, <<<<"L","a","x"," ","m","e","d"," ","p","o","t","a","t","i","s">>>>>> >>

=============================================================================
